---- MODULE Spec2Model ----
(***************************************************************************)
(* Model of the bulk migration orchestration layer of mlflow-export-import *)
(*   bulk/bulk_utils.py          entity resolution (_get_list)             *)
(*   bulk/export_experiments.py  concurrent export orchestrator            *)
(*   model/import_model.py       sequential registered-model import        *)
(*                                                                         *)
(* Python values are tagged records so that isinstance() can be modelled:  *)
(*   str   [t |-> "str",  v |-> <<chars>>]                                 *)
(*   tuple [t |-> "tup",  v |-> <<name chars, id chars>>]                  *)
(*   list  [t |-> "list", v |-> <<values>>]                                *)
(*   dict  [t |-> "dict", v |-> <<[k |-> key, runs |-> n], ...>>]          *)
(* A call either returns a value or raises:                                *)
(*   [ok |-> TRUE, val |-> x]   /   [ok |-> FALSE, exc |-> "ValueError"]   *)
(***************************************************************************)
EXTENDS Integers, Sequences, FiniteSets, TLC

---------------------------------------------------------------------------
(* Python values *)

Str(s) == [t |-> "str", v |-> s]
Tup(n, i) == [t |-> "tup", v |-> <<n, i>>]
List(xs) == [t |-> "list", v |-> xs]
Dict(kvs) == [t |-> "dict", v |-> kvs]

Return(x) == [ok |-> TRUE, val |-> x]
Raise(e) == [ok |-> FALSE, exc |-> e]

(* str.startswith / str.endswith / the substring test `a in b` *)
startswith(x, p) == Len(p) <= Len(x) /\ SubSeq(x, 1, Len(p)) = p
endswith(x, p) == Len(p) <= Len(x) /\ SubSeq(x, Len(x) - Len(p) + 1, Len(x)) = p
contains(sub, x) == \E i \in 1..(Len(x) + 1) :
                       /\ i + Len(sub) - 1 <= Len(x)
                       /\ SubSeq(x, i, i + Len(sub) - 1) = sub

(* str.split(","): the parts between commas, empty parts kept *)
RECURSIVE split(_)
split(s) ==
    IF \A i \in 1..Len(s) : s[i] # ","
    THEN <<s>>
    ELSE LET k == CHOOSE i \in 1..Len(s) :
                      s[i] = "," /\ \A j \in 1..(i - 1) : s[j] # ","
         IN <<SubSeq(s, 1, k - 1)>> \o split(SubSeq(s, k + 1, Len(s)))

(* [ f(x) for x in xs ] *)
RECURSIVE MapStr(_)
MapStr(xs) == IF xs = <<>> THEN <<>> ELSE <<Str(Head(xs))>> \o MapStr(Tail(xs))

---------------------------------------------------------------------------
(* bulk_utils._get_list *)

(* [ x for x in func_list() if x.startswith(prefix) ]: a tuple has no       *)
(* startswith attribute, the comprehension raises at the first such element *)
PrefixFilter(listing, prefix) ==
    IF \E i \in 1..Len(listing) : listing[i].t # "str"
    THEN Raise("AttributeError")
    ELSE Return(List(SelectSeq(listing, LAMBDA x : startswith(x.v, prefix))))

_get_list(names, listing) ==
    IF names.t = "str"
    THEN IF names.v = <<"a", "l", "l">>
         THEN Return(List(listing))
         ELSE IF endswith(names.v, <<"*">>)
              THEN PrefixFilter(listing, SubSeq(names.v, 1, Len(names.v) - 1))
              ELSE Return(List(MapStr(split(names.v))))
    ELSE Return(names)

---------------------------------------------------------------------------
(* Bounds of the model *)

\* experiments the tracking server lists
MaxExps == 2
\* runs one experiment export attempts
MaxRuns == 1
\* os.cpu_count() of the exporting host
MaxWorkers == 2

---------------------------------------------------------------------------
(* The tracking server: its experiments, in SearchExperimentsIterator order *)

Letters == <<"a", "x", "b", "c">>
Digits == <<"1", "2", "3", "4">>
ExpName(i) == IF i = 2 THEN <<"o", "e">> ELSE <<"e", Letters[i]>>
ExpId(i) == <<Digits[i]>>

Backend(n) == [i \in 1..n |-> Tup(ExpName(i), ExpId(i))]

NoneV == [t |-> "none", v |-> <<>>]

(* bulk_utils list_entities of the four resolvers *)
list_entities(fn, server) ==
    CASE fn = "get_experiment_ids" -> [i \in 1..Len(server) |-> Str(server[i].v[2])]
      [] fn = "get_experiment_names" -> [i \in 1..Len(server) |-> Str(server[i].v[1])]
      [] fn = "get_model_names" -> [i \in 1..Len(server) |-> Str(server[i].v[1])]
      [] OTHER -> server

get_experiments(server, exps) ==
    _get_list(exps, list_entities("get_experiments", server))

(* the `experiments` argument of export_experiments *)
SelAll == Str(<<"a", "l", "l">>)
SelWild == Str(<<"e", "*">>)
SelComma == Str(<<"e", "a", ",", "o", "e">>)
SelCommaIds == Str(<<"2", ",", "1">>)
SelList == List(<<Str(<<"e", "a">>), Str(<<"1">>)>>)
SelDict == Dict(<<[k |-> Str(<<"2">>), runs |-> <<"r1">>],
                  [k |-> Str(<<"1">>), runs |-> <<>>]>>)
SelTxt == Str(<<"f", ".", "t", "x", "t">>)
TxtLines == <<<<"e", "a">>, <<"2">>>>

Selectors == {SelAll, SelWild, SelComma, SelCommaIds, SelList, SelDict, SelTxt}

(* the --experiment-filter option: absent, or a substring of the name *)
Filters == {NoneV, Str(<<"e">>), Str(<<"a">>)}

Truthy(v) == v.t # "none" /\ v.v # <<>>

VARIABLES
    arg_experiments,   \* export_experiments(experiments=...)
    experiment_filter, \* export_experiments(experiment_filter=...)
    use_threads,       \* export_experiments(use_threads=...)
    srv,               \* the experiments of the tracking server
    lister,            \* which bulk_utils resolver is called
    pc,                \* position of the orchestrator
    exc,               \* exception the call raised, "none" otherwise
    max_workers,       \* size of the ThreadPoolExecutor
    experiments,       \* local `experiments`, a sequence of values
    experiments_dct,   \* local `experiments_dct`, the dict items
    export_all_runs,   \* local `export_all_runs`, "unbound" until assigned
    futures,           \* the submitted tasks, in submission order
    export_results,    \* the list shared by the tasks
    info_attr,         \* the info section built by the call
    manifest,          \* experiments.json in output_dir
    resolved           \* what the bulk_utils resolver returned or raised


inputs == <<arg_experiments, experiment_filter, use_threads, srv, lister>>

VARIABLES
    delete_model,      \* import_model(delete_model=...)
    versions,          \* dct["latest_versions"] of model.json
    registry,          \* registered models of that name at the destination
    ipc,               \* position of import_model
    iexc,              \* exception import_model raised, "none" otherwise
    vi,                \* index of the version the loop is at
    model_path,        \* local `model_path`
    run_id,            \* local `run_id` after import_run, 0 before
    source,            \* local `source` after path_join
    dst_fs,            \* paths that exist at the destination
    model_versions,    \* model versions of the destination model
    calls,             \* the calls made on the collaborators, in order
    create_response    \* what create_registered_model answered

import_vars == <<delete_model, versions, registry, ipc, iexc, vi, model_path, run_id,
                 source, dst_fs, model_versions, calls, create_response>>

export_vars == <<arg_experiments, experiment_filter, use_threads, srv, lister, pc, exc,
                 max_workers, experiments, experiments_dct, export_all_runs, futures,
                 export_results, info_attr, manifest, resolved>>

---------------------------------------------------------------------------
(* export_experiments: resolution and filter *)

(* utils.get_threads(use_threads): one worker, or one per processor *)
get_threads(flag) == IF flag THEN 1..MaxWorkers ELSE {1}

NoManifest == [exists |-> FALSE, mlflow |-> <<>>, note |-> "none",
               status |-> [experiments |-> 0, total_runs |-> 0,
                           ok_runs |-> 0, failed_runs |-> 0],
               experiment_names |-> <<>>]

(* experiments.json left in output_dir by an earlier export *)
OldManifest == [exists |-> TRUE,
                mlflow |-> <<[id |-> <<"9">>, name |-> <<"z">>,
                              ok_runs |-> 1, failed_runs |-> 0]>>,
                note |-> "none",
                status |-> [experiments |-> 1, total_runs |-> 1,
                            ok_runs |-> 1, failed_runs |-> 0],
                experiment_names |-> <<Str(<<"z">>)>>]

MergeNote == "Merged by export_all from export_models and export_experiments"

(* experiments.json left by an earlier export that merged into OldManifest *)
MergedManifest ==
    [exists |-> TRUE,
     mlflow |-> OldManifest.mlflow \o <<[id |-> <<"8">>, name |-> <<"y">>,
                                         ok_runs |-> 0, failed_runs |-> 1]>>,
     note |-> MergeNote,
     status |-> [experiments |-> 2, total_runs |-> 2, ok_runs |-> 1, failed_runs |-> 1],
     experiment_names |-> OldManifest.experiment_names \o <<Str(<<"y">>)>>]

NoInfo == [built |-> FALSE, experiment_names |-> <<>>, note |-> "none",
           options |-> [experiments |-> NoneV, use_threads |-> FALSE],
           status |-> [experiments |-> 0, total_runs |-> 0,
                       ok_runs |-> 0, failed_runs |-> 0]]

NotCalled == Raise("not called")

NoResponse == [cls |-> "none", code |-> "none"]

vars == <<export_vars, import_vars>>

(* import_model is not running *)
ImportIdle ==
    /\ delete_model = FALSE
    /\ versions = <<>>
    /\ registry = 0
    /\ ipc = "idle"
    /\ iexc = "none"
    /\ vi = 0
    /\ model_path = <<>>
    /\ run_id = 0
    /\ source = <<>>
    /\ dst_fs = {}
    /\ model_versions = <<>>
    /\ calls = <<>>
    /\ create_response = NoResponse

(* state of the call before its first statement *)
Entry ==
    /\ pc = "start"
    /\ exc = "none"
    /\ max_workers = 0
    /\ experiments = <<>>
    /\ experiments_dct = <<>>
    /\ export_all_runs = "unbound"
    /\ futures = <<>>
    /\ export_results = <<>>
    /\ info_attr = NoInfo

Init ==
    /\ arg_experiments \in Selectors
    /\ experiment_filter \in Filters
    /\ use_threads \in BOOLEAN
    /\ srv \in {Backend(n) : n \in 0..MaxExps}
    /\ lister = "get_experiments"
    /\ manifest \in {NoManifest, OldManifest, MergedManifest}
    /\ resolved = NotCalled
    /\ Entry
    /\ ImportIdle

(* dict.keys() *)
Keys(items) == [i \in 1..Len(items) |-> items[i].k]

(* lines 51-76: pool size, then the resolved `experiments` *)
Resolve ==
    /\ pc = "start"
    /\ \E w \in get_threads(use_threads) : max_workers' = w
    /\ IF arg_experiments.t = "str" /\ endswith(arg_experiments.v, <<".", "t", "x", "t">>)
       THEN /\ experiments' = MapStr(TxtLines)
            /\ experiments_dct' = <<>>
            /\ UNCHANGED export_all_runs
            /\ pc' = "filter"
            /\ UNCHANGED exc
       ELSE LET r == get_experiments(srv, arg_experiments) IN
            /\ export_all_runs' = IF arg_experiments.t = "dict" THEN "False" ELSE "True"
            /\ IF ~r.ok
               THEN /\ pc' = "raised"
                    /\ exc' = r.exc
                    /\ UNCHANGED <<experiments, experiments_dct>>
               ELSE /\ pc' = "filter"
                    /\ UNCHANGED exc
                    /\ IF arg_experiments.t = "dict"
                       THEN /\ experiments_dct' = r.val.v
                            /\ experiments' = Keys(r.val.v)
                       ELSE /\ experiments_dct' = <<>>
                            /\ experiments' = r.val.v
    /\ UNCHANGED <<import_vars, inputs, futures, export_results, info_attr, manifest, resolved>>

(* `for exp_name, exp_id in experiments`: a tuple unpacks to its two items,  *)
(* a str of two characters to its characters, any other str is a ValueError *)
Unpack(e) ==
    IF e.t = "tup"
    THEN Return(<<e.v[1], e.v[2]>>)
    ELSE IF Len(e.v) = 2
         THEN Return(<<<<e.v[1]>>, <<e.v[2]>>>>)
         ELSE Raise("ValueError")

(* lines 87-91 *)
FilterLoop(exps, term) ==
    IF \E i \in 1..Len(exps) : ~Unpack(exps[i]).ok
    THEN Raise("ValueError")
    ELSE LET kept == SelectSeq(exps, LAMBDA e : contains(term, Unpack(e).val[1]))
         IN Return([i \in 1..Len(kept) |-> Str(Unpack(kept[i]).val[2])])

(* line 86: the condition under which the filter loop runs *)
FilterCondition == export_all_runs = "True" /\ Truthy(experiment_filter)

(* lines 86-91 *)
ApplyFilter ==
    /\ pc = "filter"
    /\ IF export_all_runs = "unbound"
       THEN /\ pc' = "raised"
            /\ exc' = "UnboundLocalError"
            /\ UNCHANGED experiments
       ELSE IF FilterCondition
            THEN LET r == FilterLoop(experiments, experiment_filter.v) IN
                 IF r.ok
                 THEN /\ experiments' = r.val
                      /\ pc' = "submit"
                      /\ UNCHANGED exc
                 ELSE /\ pc' = "raised"
                      /\ exc' = r.exc
                      /\ UNCHANGED experiments
            ELSE /\ pc' = "submit"
                 /\ UNCHANGED <<experiments, exc>>
    /\ UNCHANGED <<import_vars, inputs, max_workers, experiments_dct, export_all_runs, futures,
                   export_results, info_attr, manifest, resolved>>

---------------------------------------------------------------------------
(* export_experiments: the worker pool and _export_experiment *)

(* dict.get(key, None) on experiments_dct *)
DictGet(items, key) ==
    IF \E i \in 1..Len(items) : items[i].k = key
    THEN List(items[CHOOSE i \in 1..Len(items) : items[i].k = key].runs)
    ELSE NoneV

(* a task as submitted: the locals of _export_experiment at line 167 *)
NewTask(unit, run_ids) ==
    [unit |-> unit, run_ids |-> run_ids, st |-> "pending", exp |-> 0,
     exp_name |-> unit, ok_runs |-> -1, failed_runs |-> -1, err_msg |-> "none"]

Finished(f) == f.st \in {"done", "raised"}
InFlight == {i \in 1..Len(futures) : futures[i].st \in {"running", "exporting"}}

(* lines 95-108: one executor.submit per element of `experiments` *)
Submit ==
    /\ pc = "submit"
    /\ Len(futures) < Len(experiments)
    /\ LET unit == experiments[Len(futures) + 1] IN
       futures' = Append(futures, NewTask(unit, DictGet(experiments_dct, unit)))
    /\ UNCHANGED <<import_vars, inputs, pc, exc, max_workers, experiments, experiments_dct,
                   export_all_runs, export_results, info_attr, manifest, resolved>>

(* mutant of StartTask: a thread per task, whatever the pool size *)
StartTaskUnbounded(i) ==
    /\ futures[i].st = "pending"
    /\ futures' = [futures EXCEPT ![i].st = "running"]
    /\ UNCHANGED <<import_vars, inputs, pc, exc, max_workers, experiments, experiments_dct,
                   export_all_runs, export_results, info_attr, manifest, resolved>>

(* ThreadPoolExecutor: a free worker takes the oldest queued task *)
StartTask(i) ==
    /\ futures[i].st = "pending"
    /\ \A j \in 1..(i - 1) : futures[j].st # "pending"
    /\ Cardinality(InFlight) < max_workers
    /\ futures' = [futures EXCEPT ![i].st = "running"]
    /\ UNCHANGED <<import_vars, inputs, pc, exc, max_workers, experiments, experiments_dct,
                   export_all_runs, export_results, info_attr, manifest, resolved>>

(* mlflow_utils.get_experiment: by name, then by id; 0 when there is none *)
get_experiment(server, unit) ==
    IF unit.t # "str" THEN 0
    ELSE IF \E i \in 1..Len(server) : server[i].v[1] = unit.v
         THEN CHOOSE i \in 1..Len(server) : server[i].v[1] = unit.v
         ELSE IF \E i \in 1..Len(server) : server[i].v[2] = unit.v
              THEN CHOOSE i \in 1..Len(server) : server[i].v[2] = unit.v
              ELSE 0

(* mutant of Caught: the handler lets the exception out of the task *)
Propagated(f, kind) == [f EXCEPT !.st = "raised", !.err_msg = kind]

(* lines 194-204: the exception is logged and the sentinel Result returned *)
Caught(f, kind) == [f EXCEPT !.st = "done", !.err_msg = kind]

(* lines 169-171: no experiment for the unit ends in the handler of line 201 *)
TaskGetExperiment(i) ==
    /\ futures[i].st = "running"
    /\ LET e == get_experiment(srv, futures[i].unit) IN
       futures' = [futures EXCEPT ![i] =
                      IF e = 0 THEN Caught(@, "Exception")
                      ELSE [@ EXCEPT !.st = "exporting", !.exp = e,
                                     !.exp_name = Str(srv[e].v[1])]]
    /\ UNCHANGED <<import_vars, inputs, pc, exc, max_workers, experiments, experiments_dct,
                   export_all_runs, export_results, info_attr, manifest, resolved>>

(* line 171: the directory the task exports into, under output_dir *)
exp_output_dir(f) == srv[f.exp].v[2]

(* mutant of TaskExportReturns: the detail record is not appended *)
TaskExportReturnsNoRecord(i) ==
    /\ futures[i].st = "exporting"
    /\ \E ok \in 0..MaxRuns : \E failed \in 0..(MaxRuns - ok) :
         futures' = [futures EXCEPT ![i].st = "done", ![i].ok_runs = ok,
                                    ![i].failed_runs = failed]
    /\ UNCHANGED <<import_vars, inputs, pc, exc, max_workers, experiments, experiments_dct,
                   export_all_runs, export_results, info_attr, manifest, resolved>>

(* lines 173-192, 204: export_experiment returns its two counts *)
TaskExportReturns(i) ==
    /\ futures[i].st = "exporting"
    /\ \E ok \in 0..MaxRuns : \E failed \in 0..(MaxRuns - ok) :
         /\ futures' = [futures EXCEPT ![i].st = "done", ![i].ok_runs = ok,
                                       ![i].failed_runs = failed]
         /\ export_results' = Append(export_results,
                [id |-> srv[futures[i].exp].v[2], name |-> srv[futures[i].exp].v[1],
                 ok_runs |-> ok, failed_runs |-> failed])
    /\ UNCHANGED <<import_vars, inputs, pc, exc, max_workers, experiments, experiments_dct,
                   export_all_runs, info_attr, manifest, resolved>>

(* lines 194-197: export_experiment raises RestException *)
TaskExportRestException(i) ==
    /\ futures[i].st = "exporting"
    /\ futures' = [futures EXCEPT ![i] = Caught(@, "RestException")]
    /\ UNCHANGED <<import_vars, inputs, pc, exc, max_workers, experiments, experiments_dct,
                   export_all_runs, export_results, info_attr, manifest, resolved>>

(* lines 198-200: export_experiment raises MlflowExportImportException *)
TaskExportMlflowException(i) ==
    /\ futures[i].st = "exporting"
    /\ futures' = [futures EXCEPT ![i] = Caught(@, "MlflowExportImportException")]
    /\ UNCHANGED <<import_vars, inputs, pc, exc, max_workers, experiments, experiments_dct,
                   export_all_runs, export_results, info_attr, manifest, resolved>>

(* lines 201-203: export_experiment raises any other Exception *)
TaskExportException(i) ==
    /\ futures[i].st = "exporting"
    /\ futures' = [futures EXCEPT ![i] = Caught(@, "Exception")]
    /\ UNCHANGED <<import_vars, inputs, pc, exc, max_workers, experiments, experiments_dct,
                   export_all_runs, export_results, info_attr, manifest, resolved>>

(* mutant of PoolJoined: the pool is left without waiting, shutdown(wait=False) *)
PoolNotJoined == TRUE

(* line 94: leaving the `with` block joins the pool, shutdown(wait=True) *)
PoolJoined == \A i \in 1..Len(futures) : Finished(futures[i])

ExitPool ==
    /\ pc = "submit"
    /\ Len(futures) = Len(experiments)
    /\ PoolJoined
    /\ pc' = "aggregate"
    /\ UNCHANGED <<import_vars, inputs, exc, max_workers, experiments, experiments_dct,
                   export_all_runs, futures, export_results, info_attr, manifest, resolved>>

---------------------------------------------------------------------------
(* export_experiments: aggregation and the manifest *)

RECURSIVE SumOkRuns(_)
SumOkRuns(fs) == IF fs = <<>> THEN 0 ELSE Head(fs).ok_runs + SumOkRuns(Tail(fs))

RECURSIVE SumFailedRuns(_)
SumFailedRuns(fs) ==
    IF fs = <<>> THEN 0 ELSE Head(fs).failed_runs + SumFailedRuns(Tail(fs))

(* lines 110-140 *)
BuildInfo(fs) ==
    [built |-> TRUE,
     experiment_names |-> [i \in 1..Len(fs) |-> fs[i].exp_name],
     note |-> "none",
     options |-> [experiments |-> arg_experiments, use_threads |-> use_threads],
     status |-> [experiments |-> Len(fs),
                 total_runs |-> SumOkRuns(fs) + SumFailedRuns(fs),
                 ok_runs |-> SumOkRuns(fs),
                 failed_runs |-> SumFailedRuns(fs)]]

(* lines 109-141: future.result() waits for its task and re-raises what it raised *)
Aggregate ==
    /\ pc = "aggregate"
    /\ \A i \in 1..Len(futures) : Finished(futures[i])
    /\ IF \E i \in 1..Len(futures) : futures[i].st = "raised"
       THEN /\ pc' = "raised"
            /\ exc' = "TaskException"
            /\ UNCHANGED info_attr
       ELSE /\ pc' = "write"
            /\ info_attr' = BuildInfo(futures)
            /\ UNCHANGED exc
    /\ UNCHANGED <<import_vars, inputs, max_workers, experiments, experiments_dct, export_all_runs,
                   futures, export_results, manifest, resolved>>

(* experiments_merge_utils.merge_mlflow: the two payload lists, existing first *)
merge_mlflow(old, new) == old \o new

(* experiments_merge_utils.merge_info: counts summed, names of both *)
merge_info(old, new) ==
    [new EXCEPT !.experiment_names = old.experiment_names \o new.experiment_names,
                !.status = [experiments |-> old.status.experiments + new.status.experiments,
                            total_runs |-> old.status.total_runs + new.status.total_runs,
                            ok_runs |-> old.status.ok_runs + new.status.ok_runs,
                            failed_runs |-> old.status.failed_runs + new.status.failed_runs]]

(* mutant of WriteManifest: experiments.json is written over what is there *)
WriteManifestOverwrite ==
    /\ pc = "write"
    /\ manifest' = [exists |-> TRUE, mlflow |-> export_results, note |-> info_attr.note,
                    status |-> info_attr.status,
                    experiment_names |-> info_attr.experiment_names]
    /\ pc' = "done"
    /\ UNCHANGED <<import_vars, inputs, exc, max_workers, experiments, experiments_dct,
                   export_all_runs, futures, export_results, info_attr, resolved>>

(* lines 145-161: merge with an existing experiments.json, write, return info *)
WriteManifest ==
    /\ pc = "write"
    /\ LET info == IF manifest.exists
                   THEN [merge_info(manifest, info_attr) EXCEPT !.note = MergeNote]
                   ELSE info_attr
           payload == IF manifest.exists
                      THEN merge_mlflow(manifest.mlflow, export_results)
                      ELSE export_results
       IN /\ info_attr' = info
          /\ manifest' = [exists |-> TRUE, mlflow |-> payload, note |-> info.note,
                          status |-> info.status,
                          experiment_names |-> info.experiment_names]
    /\ pc' = "done"
    /\ UNCHANGED <<import_vars, inputs, exc, max_workers, experiments, experiments_dct,
                   export_all_runs, futures, export_results, resolved>>

Next ==
    \/ Resolve
    \/ ApplyFilter
    \/ Submit
    \/ \E i \in 1..Len(futures) : StartTask(i)
    \/ \E i \in 1..Len(futures) : TaskGetExperiment(i)
    \/ \E i \in 1..Len(futures) : TaskExportReturns(i)
    \/ \E i \in 1..Len(futures) : TaskExportRestException(i)
    \/ \E i \in 1..Len(futures) : TaskExportMlflowException(i)
    \/ \E i \in 1..Len(futures) : TaskExportException(i)
    \/ ExitPool
    \/ Aggregate
    \/ WriteManifest

Spec == Init /\ [][Next]_vars

---------------------------------------------------------------------------
(* Properties of export_experiments *)

Failed(f) == f.st = "done" /\ f.err_msg # "none"
Succeeded(f) == f.st = "done" /\ f.err_msg = "none"
Aggregating == pc \in {"aggregate", "write", "done"}

(* C1: whatever subset of the submitted tasks fails, in whichever handler,   *)
(* no exception leaves a task, the call does not raise once tasks have been *)
(* submitted, it never gets stuck, and when it has returned every submitted *)
(* task has completed and experiments.json holds the report.                *)
C1_TaskFailureNeverAborts ==
    /\ \A i \in 1..Len(futures) : futures[i].st # "raised"
    /\ (pc = "raised" => futures = <<>>)
    /\ (pc \notin {"done", "raised"} => ENABLED Next)
    /\ (pc = "done" =>
          /\ Len(futures) = Len(experiments)
          /\ \A i \in 1..Len(futures) : futures[i].st = "done"
          /\ info_attr.built
          /\ manifest.exists
          /\ manifest.status = info_attr.status)

C1_Witness ==
    /\ pc = "done"
    /\ \E i, k \in 1..Len(futures) :
         /\ futures[i].err_msg \in {"RestException", "MlflowExportImportException"}
         /\ Succeeded(futures[k])

RECURSIVE SucceededOkRuns(_)
SucceededOkRuns(fs) ==
    IF fs = <<>> THEN 0
    ELSE (IF Succeeded(Head(fs)) THEN Head(fs).ok_runs ELSE 0) + SucceededOkRuns(Tail(fs))

(* C3: the report's status.ok_runs is the sum of the ok-run counts of the   *)
(* succeeding tasks; a failed entity's -1/-1 outcome does not change it.    *)
C3_OkRunsExcludeSentinel ==
    pc = "write" => info_attr.status.ok_runs = SucceededOkRuns(futures)

(* C4: when at least one task failed, status.failed_runs is greater than 0  *)
(* and status.experiments is the number of resolved entities.               *)
C4_FailedEntityCounted ==
    (pc = "write" /\ \E i \in 1..Len(futures) : Failed(futures[i])) =>
        /\ info_attr.status.failed_runs > 0
        /\ info_attr.status.experiments = Len(experiments)

(* the tasks that appended a detail record, in submission order *)
SucceededTasks == SelectSeq(futures, Succeeded)

(* C5: the report lists the per-entity results in submission order, both    *)
(* info.experiment_names and the mlflow.experiments payload, whatever the   *)
(* order in which the workers finished.                                     *)
C5_ReportInSubmissionOrder ==
    pc = "write" =>
        /\ info_attr.experiment_names = [i \in 1..Len(futures) |-> futures[i].exp_name]
        /\ [i \in 1..Len(export_results) |-> export_results[i].id]
             = [i \in 1..Len(SucceededTasks) |-> srv[SucceededTasks[i].exp].v[2]]

(* C6: once aggregation has begun every element of `experiments` has been   *)
(* submitted, every task has finished (none pending, none running, none to  *)
(* append any more) and the outcome list holds one record per task that     *)
(* completed its export.                                                    *)
C6_AggregateAfterJoin ==
    Aggregating =>
        /\ Len(futures) = Len(experiments)
        /\ \A i \in 1..Len(futures) : Finished(futures[i])
        /\ InFlight = {}
        /\ Len(export_results) = Len(SucceededTasks)

C6_Witness ==
    /\ pc = "aggregate"
    /\ Len(futures) >= 2
    /\ Len(export_results) >= 1
    /\ \E i \in 1..Len(futures) : Failed(futures[i])

(* C7: the tasks submitted are the elements of the resolved sequence, one   *)
(* each and in order, the pool size is at least 1, and the exports in       *)
(* flight never exceed it.                                                  *)
C7_BoundedPool ==
    /\ (pc # "start" => max_workers >= 1)
    /\ Cardinality(InFlight) <= max_workers
    /\ Len(futures) <= Len(experiments)
    /\ \A i \in 1..Len(futures) : futures[i].unit = experiments[i]
    /\ (Aggregating => Len(futures) = Len(experiments))

C7_Witness ==
    /\ max_workers = 1
    /\ Cardinality(InFlight) = 1
    /\ \E i \in 1..Len(futures) : futures[i].st = "pending"

(* the caller named exact targets: a list, a dict or a comma-delimited str *)
ExactTargets ==
    \/ arg_experiments.t \in {"list", "dict"}
    \/ /\ arg_experiments.t = "str"
       /\ arg_experiments # SelAll
       /\ ~endswith(arg_experiments.v, <<"*">>)
       /\ ~endswith(arg_experiments.v, <<".", "t", "x", "t">>)

ResolvedSet ==
    IF arg_experiments.t = "dict"
    THEN Keys(arg_experiments.v)
    ELSE get_experiments(srv, arg_experiments).val.v

(* C9: with exact targets the substring filter is never applied: the call   *)
(* goes on to submit the resolved set unchanged.                            *)
C9_FilterOnlyOnFullListing ==
    (ExactTargets /\ pc \notin {"start", "filter"}) =>
        /\ pc # "raised"
        /\ experiments = ResolvedSet

(* C10: for "all" without a filter the units submitted are the experiment   *)
(* ids of the full listing, one per experiment, as they are with a filter   *)
(* term that every name contains.                                           *)
C10_AllSubmitsIds ==
    (arg_experiments = SelAll /\ ~Truthy(experiment_filter) /\ Aggregating) =>
        /\ Len(futures) = Len(srv)
        /\ \A i \in 1..Len(futures) :
             futures[i].unit.t = "str" /\ futures[i].unit.v = srv[i].v[2]

(* the same with a filter term that every experiment name contains *)
C10_AllWithFilterSubmitsIds ==
    (arg_experiments = SelAll /\ experiment_filter = Str(<<"e">>) /\ Aggregating) =>
        /\ Len(futures) = Len(srv)
        /\ \A i \in 1..Len(futures) :
             futures[i].unit.t = "str" /\ futures[i].unit.v = srv[i].v[2]

---------------------------------------------------------------------------
(* Entity resolution on its own: one call of a bulk_utils resolver *)

ResolveSelectors ==
    Selectors \cup {Str(<<"*">>), Str(<<"o", "e", "*">>), Str(<<>>),
                    Str(<<"e", "a", ",", ",", "1">>), Str(<<"z">>)}

Resolvers == {"get_experiment_ids", "get_experiment_names", "get_experiments",
              "get_model_names"}

InitResolve ==
    /\ arg_experiments \in ResolveSelectors
    /\ lister \in Resolvers
    /\ srv \in {Backend(n) : n \in 0..MaxExps}
    /\ experiment_filter = NoneV
    /\ use_threads = FALSE
    /\ manifest = NoManifest
    /\ resolved = NotCalled
    /\ Entry
    /\ ImportIdle

(* lines 24-45: the resolver hands its list_entities to _get_list *)
CallResolver ==
    /\ pc = "start"
    /\ resolved' = _get_list(arg_experiments, list_entities(lister, srv))
    /\ pc' = "resolved"
    /\ UNCHANGED <<import_vars, inputs, exc, max_workers, experiments, experiments_dct,
                   export_all_runs, futures, export_results, info_attr, manifest>>

NextResolve == CallResolver

SpecResolve == InitResolve /\ [][NextResolve]_vars

(* the display name of a listed entity: the entity itself, or the name of a *)
(* (name, id) pair                                                          *)
EntityName(e) == IF e.t = "tup" THEN e.v[1] ELSE e.v

(* ",".join(parts) *)
RECURSIVE JoinComma(_)
JoinComma(parts) ==
    IF parts = <<>> THEN <<>>
    ELSE IF Len(parts) = 1 THEN parts[1].v
         ELSE parts[1].v \o <<",">> \o JoinComma(Tail(parts))

WildcardSelector == arg_experiments.t = "str" /\ arg_experiments # SelAll
                    /\ endswith(arg_experiments.v, <<"*">>)

(* C8: "all" resolves to the listing, p* to the listed entities that start  *)
(* with p in listing order, any other str to its comma-split parts, and a   *)
(* value that is not a str to itself; for each of the four resolvers.       *)
C8_Resolution ==
    pc = "resolved" =>
        LET L == list_entities(lister, srv)
            p == SubSeq(arg_experiments.v, 1, Len(arg_experiments.v) - 1)
        IN /\ resolved.ok
           /\ arg_experiments = SelAll => resolved.val = List(L)
           /\ WildcardSelector =>
                resolved.val = List(SelectSeq(L, LAMBDA e : startswith(EntityName(e), p)))
           /\ (arg_experiments.t = "str" /\ arg_experiments # SelAll /\ ~WildcardSelector) =>
                /\ resolved.val.t = "list"
                /\ Len(resolved.val.v) >= 1
                /\ \A i \in 1..Len(resolved.val.v) :
                     resolved.val.v[i].t = "str" /\ ~contains(<<",">>, resolved.val.v[i].v)
                /\ JoinComma(resolved.val.v) = arg_experiments.v
           /\ arg_experiments.t # "str" => resolved.val = arg_experiments

(* the same for the three resolvers whose listing holds str entities *)
C8_ResolutionOfStrListings == lister # "get_experiments" => C8_Resolution

---------------------------------------------------------------------------
(* import_model.py: path helpers *)

(* str.find(sub): 0-based index of the first occurrence, -1 when there is none *)
find(s, sub) ==
    IF contains(sub, s)
    THEN (CHOOSE i \in 1..(Len(s) + 1) :
             /\ i + Len(sub) - 1 <= Len(s)
             /\ SubSeq(s, i, i + Len(sub) - 1) = sub
             /\ \A j \in 1..(i - 1) : SubSeq(s, j, j + Len(sub) - 1) # sub) - 1
    ELSE -1

(* str.replace(old, new): every occurrence, left to right; old is not empty *)
RECURSIVE replace(_, _, _)
replace(s, old, new) ==
    IF Len(s) < Len(old) THEN s
    ELSE IF SubSeq(s, 1, Len(old)) = old
         THEN new \o replace(SubSeq(s, Len(old) + 1, Len(s)), old, new)
         ELSE <<Head(s)>> \o replace(Tail(s), old, new)

(* s[k:] for k >= 0 *)
SliceFrom(s, k) == SubSeq(s, k + 1, Len(s))

ArtifactsSlash == <<"a", "r", "t", "i", "f", "a", "c", "t", "s", "/">>
DbfsColon == <<"d", "b", "f", "s", ":">>

(* lines 74-79 *)
extract_model_path(src, rid) ==
    LET idx == find(src, rid)
        mp == SliceFrom(src, 1 + idx + Len(rid))
    IN IF startswith(mp, ArtifactsSlash) THEN replace(mp, ArtifactsSlash, <<>>) ELSE mp

(* os.path.join(x, y) of posixpath *)
os_path_join(a, b) ==
    IF startswith(b, <<"/">>) THEN b
    ELSE IF a = <<>> \/ endswith(a, <<"/">>) THEN a \o b
         ELSE a \o <<"/">> \o b

(* lines 81-86 *)
path_join(a, b) ==
    LET path == os_path_join(a, b)
    IN IF startswith(path, DbfsColon) THEN replace(path, <<"\\">>, <<"/">>) ELSE path

---------------------------------------------------------------------------
(* ModelImporter.import_model *)

\* model versions recorded in model.json
MaxVersions == 2

RunR1 == <<"r", "1">>

(* recorded `source` of a version of run r1 *)
Sources == {<<"s", "/">> \o RunR1 \o <<"/">> \o ArtifactsSlash \o <<"m">>,
            <<"s", "/">> \o RunR1 \o <<"/", "m">>,
            <<"s", "/">> \o RunR1 \o <<"/">> \o ArtifactsSlash \o <<"a", "/">>
                \o ArtifactsSlash \o <<"m">>}

Stages == {"None", "Production"}

VersionRecords == [run_id : {RunR1}, source : Sources, current_stage : Stages]

(* artifact roots the destination gives an imported run *)
ArtifactUris == {<<"/", "d">>, DbfsColon \o <<"/", "d">>}

InitImport ==
    /\ delete_model \in BOOLEAN
    /\ versions \in UNION {[1..n -> VersionRecords] : n \in 0..MaxVersions}
    /\ registry \in {0, 1}
    /\ ipc = "start"
    /\ iexc = "none"
    /\ vi = 0
    /\ model_path = <<>>
    /\ run_id = 0
    /\ source = <<>>
    /\ dst_fs = {}
    /\ model_versions = <<>>
    /\ calls = <<>>
    /\ create_response = NoResponse
    /\ arg_experiments = SelAll
    /\ experiment_filter = NoneV
    /\ use_threads = FALSE
    /\ srv = <<>>
    /\ lister = "get_experiments"
    /\ manifest = NoManifest
    /\ resolved = NotCalled
    /\ Entry

Call(op, v) == [op |-> op, v |-> v]

(* lines 21-35: read model.json, default the name, delete the model if asked *)
ImportStart ==
    /\ ipc = "start"
    /\ IF delete_model
       THEN /\ registry' = 0
            /\ calls' = Append(calls, Call("delete_model", 0))
       ELSE UNCHANGED <<registry, calls>>
    /\ ipc' = "create"
    /\ UNCHANGED <<export_vars, create_response, delete_model, versions, iexc, vi, model_path, run_id,
                   source, dst_fs, model_versions>>

(* answers of create_registered_model *)
Created == [cls |-> "none", code |-> "OK"]
AlreadyExists == [cls |-> "RestException", code |-> "RESOURCE_ALREADY_EXISTS"]
OtherErrors == {[cls |-> "RestException", code |-> "PERMISSION_DENIED"],
                [cls |-> "ConnectionError", code |-> "none"]}

(* mutant of Swallowed: the already-exists answer is raised like any other *)
NothingSwallowed(resp) == FALSE

(* mutant of Swallowed: every error of create_registered_model is ignored *)
AllSwallowed(resp) == TRUE

(* lines 40-42: only a RestException that says RESOURCE_ALREADY_EXISTS:      *)
(* Registered Model is not raised again                                     *)
Swallowed(resp) == resp.cls = "RestException" /\ resp.code = "RESOURCE_ALREADY_EXISTS"

(* lines 40-43: after an error answer, go on or raise *)
AfterCreateError(resp) ==
    IF Swallowed(resp)
    THEN ipc' = "set_experiment" /\ UNCHANGED iexc
    ELSE ipc' = "raised" /\ iexc' = "create_registered_model"

(* lines 37-39: the destination creates the registered model *)
CreateRegisteredModel ==
    /\ ipc = "create"
    /\ registry = 0
    /\ registry' = 1
    /\ create_response' = Created
    /\ calls' = Append(calls, Call("create_registered_model", 0))
    /\ ipc' = "set_experiment"
    /\ UNCHANGED <<export_vars, delete_model, versions, iexc, vi, model_path, run_id,
                   source, dst_fs, model_versions>>

(* lines 37-42: the destination has the model and answers already exists *)
CreateRegisteredModelExists ==
    /\ ipc = "create"
    /\ registry = 1
    /\ create_response' = AlreadyExists
    /\ calls' = Append(calls, Call("create_registered_model", 0))
    /\ AfterCreateError(AlreadyExists)
    /\ UNCHANGED <<export_vars, delete_model, versions, registry, vi, model_path,
                   run_id, source, dst_fs, model_versions>>

(* lines 37-42: create_registered_model fails for another reason *)
CreateRegisteredModelFails ==
    /\ ipc = "create"
    /\ \E resp \in OtherErrors :
         /\ create_response' = resp
         /\ AfterCreateError(resp)
    /\ calls' = Append(calls, Call("create_registered_model", 0))
    /\ UNCHANGED <<export_vars, delete_model, versions, registry, vi, model_path,
                   run_id, source, dst_fs, model_versions>>

(* line 46: the loop goes to its next version, or ends *)
NextVersion(k) == IF k < Len(versions) THEN "import_run" ELSE "done"

(* line 43 *)
SetExperiment ==
    /\ ipc = "set_experiment"
    /\ calls' = Append(calls, Call("set_experiment", 0))
    /\ vi' = 1
    /\ ipc' = NextVersion(0)
    /\ UNCHANGED <<export_vars, create_response, delete_model, versions, registry, iexc, model_path,
                   run_id, source, dst_fs, model_versions>>

(* an exception raised inside the loop body: nothing in lines 46-72 catches it *)
VersionStepRaises(step) ==
    /\ ipc' = "raised"
    /\ iexc' = step

(* lines 47-61: extract the model path, import the run, get the new run *)
ImportRun ==
    /\ ipc = "import_run"
    /\ model_path' = extract_model_path(versions[vi].source, versions[vi].run_id)
    /\ calls' = Append(calls, Call("import_run", vi))
    /\ \/ \E uri \in ArtifactUris : \E copied \in BOOLEAN :
            /\ run_id' = vi
            /\ source' = uri
            /\ dst_fs' = IF copied
                         THEN dst_fs \cup {path_join(uri, <<"m">>)}
                         ELSE dst_fs
            /\ ipc' = "check"
            /\ UNCHANGED iexc
       \/ /\ VersionStepRaises("import_run")
          /\ UNCHANGED <<run_id, source, dst_fs>>
    /\ UNCHANGED <<export_vars, create_response, delete_model, versions, registry, vi, model_versions>>

(* mutant of CheckSource: the composed source is not checked *)
CheckSourceSkipped ==
    /\ ipc = "check"
    /\ source' = path_join(source, model_path)
    /\ ipc' = "create_model_version"
    /\ UNCHANGED <<export_vars, create_response, delete_model, versions, registry, vi,
                   model_path, run_id, dst_fs, model_versions, calls, iexc>>

(* lines 65-68: compose the source, check that it exists unless it is dbfs: *)
CheckSource ==
    /\ ipc = "check"
    /\ LET composed == path_join(source, model_path) IN
       /\ source' = composed
       /\ IF ~startswith(composed, DbfsColon) /\ composed \notin dst_fs
          THEN VersionStepRaises("source does not exist")
          ELSE ipc' = "create_model_version" /\ UNCHANGED iexc
    /\ UNCHANGED <<export_vars, create_response, delete_model, versions, registry, vi, model_path, run_id,
                   dst_fs, model_versions, calls>>

(* line 69 *)
CreateModelVersion ==
    /\ ipc = "create_model_version"
    /\ calls' = Append(calls, Call("create_model_version", vi))
    /\ \/ /\ model_versions' = Append(model_versions,
                 [source |-> source, run_id |-> run_id, stage |-> "None",
                  status |-> "PENDING_REGISTRATION"])
          /\ ipc' = "wait"
          /\ UNCHANGED iexc
       \/ /\ VersionStepRaises("create_model_version")
          /\ UNCHANGED model_versions
    /\ UNCHANGED <<export_vars, create_response, delete_model, versions, registry, vi, model_path, run_id,
                   source, dst_fs>>

(* model_utils.wait_until_version_is_ready: returns when the version is     *)
(* ready, raises when its wait runs out                                     *)
wait_until_version_is_ready == {"READY", "timeout"}

(* line 70 *)
WaitUntilReady ==
    /\ ipc = "wait"
    /\ calls' = Append(calls, Call("wait_until_version_is_ready", vi))
    /\ \/ /\ "READY" \in wait_until_version_is_ready
          /\ model_versions' = [model_versions EXCEPT ![Len(model_versions)].status = "READY"]
          /\ ipc' = "transition"
          /\ UNCHANGED iexc
       \/ /\ "timeout" \in wait_until_version_is_ready
          /\ VersionStepRaises("wait_until_version_is_ready")
          /\ UNCHANGED model_versions
    /\ UNCHANGED <<export_vars, create_response, delete_model, versions, registry, vi, model_path, run_id,
                   source, dst_fs>>

(* mutant of TransitionStage: the stage is applied whatever it is *)
TransitionStageAlways ==
    /\ ipc = "transition"
    /\ calls' = Append(calls, Call("transition_model_version_stage", vi))
    /\ model_versions' = [model_versions EXCEPT
          ![Len(model_versions)].stage = versions[vi].current_stage]
    /\ ipc' = NextVersion(vi)
    /\ vi' = vi + 1
    /\ UNCHANGED <<export_vars, create_response, delete_model, versions, registry,
                   model_path, run_id, source, dst_fs, iexc>>

(* lines 71-72, then line 46 *)
TransitionStage ==
    /\ ipc = "transition"
    /\ IF versions[vi].current_stage # "None"
       THEN /\ calls' = Append(calls, Call("transition_model_version_stage", vi))
            /\ \/ /\ model_versions' = [model_versions EXCEPT
                        ![Len(model_versions)].stage = versions[vi].current_stage]
                  /\ ipc' = NextVersion(vi)
                  /\ vi' = vi + 1
                  /\ UNCHANGED iexc
               \/ /\ VersionStepRaises("transition_model_version_stage")
                  /\ UNCHANGED <<model_versions, vi>>
       ELSE /\ ipc' = NextVersion(vi)
            /\ vi' = vi + 1
            /\ UNCHANGED <<model_versions, calls, iexc>>
    /\ UNCHANGED <<export_vars, create_response, delete_model, versions, registry, model_path, run_id,
                   source, dst_fs>>

NextImport ==
    \/ ImportStart
    \/ CreateRegisteredModel
    \/ CreateRegisteredModelExists
    \/ CreateRegisteredModelFails
    \/ SetExperiment
    \/ ImportRun
    \/ CheckSource
    \/ CreateModelVersion
    \/ WaitUntilReady
    \/ TransitionStage

SpecImport == InitImport /\ [][NextImport]_vars

VersionSteps == {"import_run", "source does not exist", "create_model_version",
                 "wait_until_version_is_ready", "transition_model_version_stage"}

(* C2: a failing step of one version does not make import_model raise, and   *)
(* every later recorded version is still processed: once the registered     *)
(* model is there, the call ends only after import_run of the last version. *)
C2_VersionFailureIsolated ==
    /\ ~(ipc = "raised" /\ iexc \in VersionSteps)
    /\ (ipc \in {"done", "raised"} /\ iexc # "create_registered_model") =>
          \A k \in 1..Len(versions) : \E c \in 1..Len(calls) : calls[c] = Call("import_run", k)

---------------------------------------------------------------------------
(* Properties of the manifest and of the tasks' output *)

(* C11: experiments.json is never overwritten without merging. When the     *)
(* call writes it and a manifest is already there, the written manifest     *)
(* holds the existing records followed by the new ones, its total_runs is   *)
(* the sum of the two totals, its info carries the merge note and the       *)
(* returned info is the merged one; when none is there, the new report is   *)
(* written as built and no note is added.                                   *)
C11_MergeNeverOverwrites ==
    [][(pc = "write" /\ pc' = "done") =>
         /\ manifest'.exists
         /\ info_attr'.status = manifest'.status
         /\ info_attr'.note = manifest'.note
         /\ info_attr'.experiment_names = manifest'.experiment_names
         /\ manifest.exists =>
              /\ manifest'.mlflow = manifest.mlflow \o export_results
              /\ manifest'.status.total_runs
                   = manifest.status.total_runs + info_attr.status.total_runs
              /\ manifest'.note = MergeNote
         /\ ~manifest.exists =>
              /\ manifest'.mlflow = export_results
              /\ manifest'.status = info_attr.status
              /\ manifest'.note = "none"]_vars

C11_Witness ==
    /\ pc = "done"
    /\ manifest.note = MergeNote
    /\ Len(manifest.mlflow) = Len(MergedManifest.mlflow) + 2
    /\ manifest.status.total_runs = MergedManifest.status.total_runs + 2

---------------------------------------------------------------------------
(* Properties of import_model *)

CallsOf(op) == {c \in 1..Len(calls) : calls[c].op = op}

(* C12: when the destination already has the model and answers already      *)
(* exists, import_model does not raise at model creation, the destination   *)
(* still has exactly one registered model of that name, and the import goes *)
(* on to the experiment and the versions.                                   *)
C12_AlreadyExistsIsSuccess ==
    create_response = AlreadyExists =>
        /\ iexc # "create_registered_model"
        /\ registry = 1
        /\ ipc \notin {"start", "create"}
        /\ (ipc = "set_experiment" => ENABLED SetExperiment)
        /\ (ipc \in {"done", "raised"} => CallsOf("set_experiment") # {})
        /\ (ipc = "done" => Cardinality(CallsOf("import_run")) = Len(versions))

C12_Witness ==
    /\ create_response = AlreadyExists
    /\ ~delete_model
    /\ ipc = "done"
    /\ Len(model_versions) = 2

(* C17: when create_registered_model fails for a reason other than already  *)
(* exists, import_model raises there: no experiment is selected, no run is  *)
(* imported and no model version is created or transitioned.                *)
C17_OtherCreateFailureAborts ==
    create_response \in OtherErrors =>
        /\ ipc = "raised"
        /\ iexc = "create_registered_model"
        /\ calls[Len(calls)].op = "create_registered_model"
        /\ CallsOf("set_experiment") = {}
        /\ CallsOf("import_run") = {}
        /\ CallsOf("create_model_version") = {}
        /\ CallsOf("transition_model_version_stage") = {}
        /\ model_versions = <<>>
        /\ ~ENABLED NextImport

C17_Witness ==
    /\ create_response \in OtherErrors
    /\ Len(versions) = 2
    /\ ipc = "raised"

(* position of a call in the body of the version loop, lines 60-72 *)
StepRank(op) ==
    CASE op = "import_run" -> 1
      [] op = "create_model_version" -> 2
      [] op = "wait_until_version_is_ready" -> 3
      [] op = "transition_model_version_stage" -> 4
      [] OTHER -> 0

VersionCalls == {c \in 1..Len(calls) : StepRank(calls[c].op) > 0}
CreateVersionCalls == SelectSeq(calls, LAMBDA c : c.op = "create_model_version")
Before(op, v, c) == \E b \in 1..(c - 1) : calls[b] = Call(op, v)

(* C13: the registered model exists before any create_model_version call;   *)
(* the versions are taken one at a time in recorded order, and within a     *)
(* version the calls are import_run, create_model_version (with the id of   *)
(* the run just imported), the readiness wait, the stage transition; no     *)
(* call of a later version precedes a call of an earlier one.               *)
C13_ImportOrder ==
    /\ \A c \in CallsOf("create_model_version") :
         /\ registry = 1
         /\ \E b \in 1..(c - 1) : calls[b].op = "create_registered_model"
    /\ \A c, d \in VersionCalls :
         c < d => \/ calls[c].v < calls[d].v
                  \/ /\ calls[c].v = calls[d].v
                     /\ StepRank(calls[c].op) < StepRank(calls[d].op)
    /\ \A c \in VersionCalls :
         /\ calls[c].v \in 1..Len(versions)
         /\ calls[c].op = "import_run" =>
              \A k \in 1..(calls[c].v - 1) : Before("import_run", k, c)
         /\ calls[c].op = "create_model_version" => Before("import_run", calls[c].v, c)
         /\ calls[c].op = "wait_until_version_is_ready" =>
              Before("create_model_version", calls[c].v, c)
         /\ calls[c].op = "transition_model_version_stage" =>
              Before("wait_until_version_is_ready", calls[c].v, c)
    /\ \A k \in 1..Len(model_versions) :
         model_versions[k].run_id = CreateVersionCalls[k].v

C13_Witness ==
    /\ ipc = "done"
    /\ Len(versions) = 2
    /\ Cardinality(CallsOf("transition_model_version_stage")) = 2

(* C14: every model version created has a source that exists at the         *)
(* destination or starts with dbfs:; when the existence check fails, no     *)
(* create_model_version call is made for that record.                       *)
C14_SourceExistsOrDbfs ==
    /\ \A k \in 1..Len(model_versions) :
         \/ startswith(model_versions[k].source, DbfsColon)
         \/ model_versions[k].source \in dst_fs
    /\ (ipc = "create_model_version"
          \/ (calls # <<>> /\ calls[Len(calls)].op = "create_model_version")) =>
         \/ startswith(source, DbfsColon)
         \/ source \in dst_fs
    /\ iexc = "source does not exist" =>
         /\ ipc = "raised"
         /\ ~startswith(source, DbfsColon)
         /\ source \notin dst_fs
         /\ \A c \in CallsOf("create_model_version") : calls[c].v # vi
         /\ Len(model_versions) < vi

C14_Witness ==
    /\ iexc = "source does not exist"
    /\ Len(model_versions) = 1
    /\ startswith(model_versions[1].source, DbfsColon)
    /\ model_versions[1].source \notin dst_fs

(* C18: a stage transition is called for a version only after the readiness *)
(* wait of that version has returned and only when its recorded stage is    *)
(* not "None"; for a record whose stage is "None" it is never called.       *)
C18_TransitionAfterReady ==
    /\ \A c \in CallsOf("transition_model_version_stage") :
         /\ versions[calls[c].v].current_stage # "None"
         /\ calls[c - 1] = Call("wait_until_version_is_ready", calls[c].v)
    /\ \A k \in 1..Len(versions) :
         versions[k].current_stage = "None" =>
            \A c \in CallsOf("transition_model_version_stage") : calls[c].v # k
    /\ \A k \in 1..Len(model_versions) :
         model_versions[k].stage # "None" =>
            model_versions[k].stage = versions[model_versions[k].run_id].current_stage

C18_Witness ==
    /\ ipc = "done"
    /\ Len(versions) = 2
    /\ versions[1].current_stage = "None"
    /\ versions[2].current_stage = "Production"
    /\ model_versions[2].stage = "Production"

(* <p> of a recorded source s/r1/artifacts/<p> or s/r1/<p>: what follows    *)
(* the run id, less one leading artifacts/                                  *)
ExpectedModelPath(src) ==
    LET rest == SliceFrom(src, Len(<<"s", "/">> \o RunR1 \o <<"/">>))
    IN IF startswith(rest, ArtifactsSlash) THEN SliceFrom(rest, Len(ArtifactsSlash))
       ELSE rest

(* C15: extract_model_path gives exactly <p>, the suffix after the run id    *)
(* with one leading artifacts/ removed if present.                          *)
C15_ExtractModelPath ==
    ipc = "check" => model_path = ExpectedModelPath(versions[vi].source)

(* the same for the sources in which artifacts/ occurs at most once *)
C15_SingleArtifactsSegment ==
    (ipc = "check" /\ ~contains(ArtifactsSlash, ExpectedModelPath(versions[vi].source)))
        => model_path = ExpectedModelPath(versions[vi].source)

(* C16: for a .txt selector one task is submitted per line of the file and  *)
(* the call completes with its report.                                      *)
C16_TxtFileExported ==
    arg_experiments = SelTxt =>
        /\ pc # "raised"
        /\ (Aggregating => [i \in 1..Len(futures) |-> futures[i].unit] = MapStr(TxtLines))

(* C19: no two tasks of one call export into the same subdirectory of       *)
(* output_dir, also when the sequence names an experiment more than once.   *)
C19_OwnSubdirectory ==
    \A i, j \in 1..Len(futures) :
        (i # j /\ futures[i].exp # 0 /\ futures[j].exp # 0) =>
            exp_output_dir(futures[i]) # exp_output_dir(futures[j])

RecordOf(f) == [id |-> srv[f.exp].v[2], name |-> srv[f.exp].v[1],
                ok_runs |-> f.ok_runs, failed_runs |-> f.failed_runs]

(* C20: a manifest written where none was holds one detail record for each  *)
(* task that completed its export and none for a failed task, so that the   *)
(* payload has status.experiments minus the failed tasks records, and       *)
(* experiment_names has one entry for every submitted task.                 *)
C20_PayloadHoldsCompletedTasks ==
    (pc = "done" /\ manifest.note = "none") =>
        /\ Len(manifest.mlflow)
             = manifest.status.experiments
                 - Cardinality({i \in 1..Len(futures) : Failed(futures[i])})
        /\ \A i \in 1..Len(futures) :
             Succeeded(futures[i]) =>
                Cardinality({k \in 1..Len(manifest.mlflow) :
                                manifest.mlflow[k] = RecordOf(futures[i])})
                  = Cardinality({j \in 1..Len(futures) :
                                    /\ Succeeded(futures[j])
                                    /\ RecordOf(futures[j]) = RecordOf(futures[i])})
        /\ Len(manifest.experiment_names) = Len(futures)
        /\ Len(futures) = Len(experiments)
        /\ \A i \in 1..Len(futures) : manifest.experiment_names[i] = futures[i].exp_name

C20_Witness ==
    /\ pc = "done"
    /\ manifest.note = "none"
    /\ Len(manifest.mlflow) = 1
    /\ Len(manifest.experiment_names) = 2
    /\ \E i \in 1..Len(futures) : Failed(futures[i])

====
